---- MODULE Spec2Model ----
(***************************************************************************)
(* Model of the defect-collector pipeline: the LLM extractor               *)
(* (nlp/extractor_llm.py), the storage gateway (storage/mysql_client.py)   *)
(* and the orchestrator (pipeline/pipeline_runner.py).                     *)
(*                                                                         *)
(* Python strings are sequences of one-character tokens.  Python values    *)
(* that can have several types (the values of a parsed JSON document) are  *)
(* tagged records [t |-> type, v |-> value].                               *)
(***************************************************************************)
EXTENDS Integers, Sequences, FiniteSets, TLC

\* ------------------------------------------------------------------------
\* Bounds of the model
\* ------------------------------------------------------------------------
\* longest text of the exhaustive short-text family
MaxTextLen == 5
\* most lines of a text of the multi-line family
MaxLines == 6

\* ------------------------------------------------------------------------
\* Characters and strings
\* ------------------------------------------------------------------------
\* one character of the range 一-鿿
CJK == "U+4E2D"

\* U+2028 LINE SEPARATOR: a line break of str.splitlines() and a \s character
\* that is not a control character
LS == "U+2028"

\* the line boundaries of str.splitlines() among the characters drawn
LineBreaks == {"\n", LS}

WhitespaceChars == {" ", "\n", "\t", LS}

IsSpace(c) == c \in WhitespaceChars

IsChinese(c) == c = CJK

Rep(c, n) == [i \in 1..n |-> c]

Min(a, b) == IF a <= b THEN a ELSE b

\* s[:n]
Take(s, n) == SubSeq(s, 1, Min(n, Len(s)))

\* str.strip()
Strip(s) ==
    LET keep == {i \in 1..Len(s) : ~IsSpace(s[i])}
    IN  IF keep = {} THEN <<>>
        ELSE LET lo == CHOOSE i \in keep : \A j \in keep : i <= j
                 hi == CHOOSE i \in keep : \A j \in keep : j <= i
             IN  SubSeq(s, lo, hi)

\* str.splitlines(): a trailing line break opens no further line
RECURSIVE SplitLines(_)
SplitLines(s) ==
    IF s = <<>> THEN <<>>
    ELSE LET brk == {i \in 1..Len(s) : s[i] \in LineBreaks}
         IN  IF brk = {} THEN <<s>>
             ELSE LET p == CHOOSE i \in brk : \A j \in brk : i <= j
                  IN  <<SubSeq(s, 1, p - 1)>> \o SplitLines(SubSeq(s, p + 1, Len(s)))

\* sep.join(parts)
RECURSIVE Join(_, _)
Join(parts, sep) ==
    IF parts = <<>> THEN <<>>
    ELSE IF Len(parts) = 1 THEN parts[1]
    ELSE parts[1] \o sep \o Join(Tail(parts), sep)

\* all sequences over S of length at most n
SeqUpTo(S, n) == UNION {[1..k -> S] : k \in 0..n}

\* ------------------------------------------------------------------------
\* Python values
\* ------------------------------------------------------------------------
PyNone == [t |-> "none"]
PyStr(s) == [t |-> "str", v |-> s]
PyList(l) == [t |-> "list", v |-> l]
PyInt(n) == [t |-> "int", v |-> n]
PyDict(d) == [t |-> "dict", v |-> d]

\* bool(x)
Truthy(x) ==
    CASE x.t = "none" -> FALSE
      [] x.t = "str"  -> x.v # <<>>
      [] x.t = "list" -> x.v # <<>>
      [] x.t = "int"  -> x.v # 0
      [] x.t = "dict" -> DOMAIN x.v # {}

Digit(n) == CASE n = 0 -> "0" [] n = 1 -> "1" [] n = 2 -> "2" [] n = 3 -> "3"
              [] n = 4 -> "4" [] n = 5 -> "5" [] n = 6 -> "6" [] n = 7 -> "7"
              [] n = 8 -> "8" [] n = 9 -> "9"

\* str(x), for the values the model draws: one-digit integers, lists of
\* strings without quotes in them, the empty dict
ToStr(x) ==
    CASE x.t = "none" -> <<"N", "o", "n", "e">>
      [] x.t = "str"  -> x.v
      [] x.t = "int"  -> <<Digit(x.v)>>
      [] x.t = "list" ->
            <<"[">> \o Join([i \in 1..Len(x.v) |-> <<"'">> \o x.v[i].v \o <<"'">>],
                            <<",", " ">>) \o <<"]">>
      [] x.t = "dict" -> <<"{", "}">>

\* x, whatever its truth value
Or_first(x, y) == x

\* x or y
Or(x, y) == IF Truthy(x) THEN x ELSE y

\* dict.get(key) and dict.get(key, default)
Get(d, key) == IF key \in DOMAIN d THEN d[key] ELSE PyNone
GetOr(d, key, default) == IF key \in DOMAIN d THEN d[key] ELSE default

\* ------------------------------------------------------------------------
\* nlp/schema.py and nlp/extractor_llm.py
\* ------------------------------------------------------------------------
UnKnow == <<"U", "n", "K", "n", "o", "w">>

SchemaKeys ==
    {"title", "description", "version", "severity", "steps_to_reproduce", "stack_trace"}

\* the template every extraction result is cloned from: empty strings, the
\* severity "UnKnow", an empty list of steps
DEFAULT_SCHEMA ==
    [k \in SchemaKeys |->
        CASE k = "steps_to_reproduce" -> PyList(<<>>)
          [] k = "severity"           -> PyStr(UnKnow)
          [] OTHER                    -> PyStr(<<>>)]

\* [:5000] of validate_extraction
ValidateMaxLen == 5000
\* [:200] of the heuristic title
FallbackTitleLen == 200
\* lines[1:5] of the heuristic description
FallbackDescLines == 4
\* stop_after_attempt(3)
StopAfterAttempt == 3

\* detect_language dividing by the length of the whole text
detect_language_whole(text) ==
    IF text = <<>> \/ Strip(text) = <<>> THEN "zh"
    ELSE LET chinese_chars == Cardinality({i \in 1..Len(text) : IsChinese(text[i])})
         IN  IF 5 * chinese_chars > Len(text) THEN "zh" ELSE "en"

\* detect_language: "zh" when more than 20% of the non-whitespace characters
\* are Chinese.  len(chinese_chars) / total_chars > 0.2 is decided on the
\* integers: the correctly rounded quotient k / (5k) is the double 0.2 itself.
detect_language(text) ==
    IF text = <<>> \/ Strip(text) = <<>> THEN "zh"
    ELSE LET chinese_chars == Cardinality({i \in 1..Len(text) : IsChinese(text[i])})
             total_chars   == Cardinality({i \in 1..Len(text) : ~IsSpace(text[i])})
         IN  IF total_chars = 0 THEN "zh"
             ELSE IF 5 * chinese_chars > total_chars THEN "zh" ELSE "en"

\* one iteration of the loop of validate_extraction
ValidateKey(result, key) ==
    LET kept    == GetOr(result, key, DEFAULT_SCHEMA[key])
        got     == Get(result, key)
        coerced == IF kept.t = "list" /\ got.t # "list"
                   THEN IF Truthy(got) THEN PyList(<<PyStr(ToStr(got))>>) ELSE PyList(<<>>)
                   ELSE kept
    IN  IF coerced.t = "str"
        THEN PyStr(Strip(Take(coerced.v, ValidateMaxLen)))
        ELSE coerced

\* validate_extraction starting from the result instead of the schema
validate_extraction_update(result) ==
    [key \in SchemaKeys \cup DOMAIN result |->
        IF key \in SchemaKeys THEN ValidateKey(result, key) ELSE result[key]]

\* validate_extraction(result) for a result that is a dict; on any other
\* value result.get raises AttributeError
validate_extraction(result) == [key \in SchemaKeys |-> ValidateKey(result, key)]

\* the heuristic of the except json.JSONDecodeError branch of llm_extract
FallbackLines(text) ==
    LET all == SplitLines(text)
        stripped == [i \in 1..Len(all) |-> Strip(all[i])]
    IN  SelectSeq(stripped, LAMBDA l : l # <<>>)

\* the heuristic taking lines[1:4]
Fallback_short(text) ==
    LET lines == FallbackLines(text)
    IN  IF lines = <<>> THEN DEFAULT_SCHEMA
        ELSE [DEFAULT_SCHEMA EXCEPT
                !["title"] = PyStr(Take(lines[1], FallbackTitleLen)),
                !["description"] =
                    PyStr(Join(SubSeq(lines, 2, Min(FallbackDescLines, Len(lines))), <<" ">>))]

Fallback(text) ==
    LET lines == FallbackLines(text)
    IN  IF lines = <<>> THEN DEFAULT_SCHEMA
        ELSE [DEFAULT_SCHEMA EXCEPT
                !["title"] = PyStr(Take(lines[1], FallbackTitleLen)),
                !["description"] =
                    PyStr(Join(SubSeq(lines, 2, Min(1 + FallbackDescLines, Len(lines))), <<" ">>))]

\* exception classes call_llm can leave with
RequestExceptions == {"ConnectionError", "Timeout", "HTTPError"}
ShapeErrors == {"KeyError", "AttributeError"}
ErrorKinds == RequestExceptions \cup {"TimeoutError", "JSONDecodeError"} \cup ShapeErrors

\* a policy retrying on every exception
RetryIf_any(kind) == TRUE

\* RETRY_CONFIG["retry"]
RetryIf(kind) == kind \in RequestExceptions \cup {"JSONDecodeError", "TimeoutError"}

\* isinstance(e, Exception): every class above derives from Exception
IsException(kind) == kind \in ErrorKinds

\* isinstance(e, json.JSONDecodeError): response.json() of requests raises a
\* subclass of json.JSONDecodeError
IsJSONDecodeError(kind) == kind = "JSONDecodeError"

\* if not text
IsBlankText_empty(t) == t = <<>>

\* if not text or not text.strip()
IsBlankText(t) == t = <<>> \/ Strip(t) = <<>>

\* ------------------------------------------------------------------------
\* preprocessing/clean.py, for texts without markup, code spans, URLs,
\* mentions and label tokens (none of < & ` : / @ ~ occurs in the texts drawn)
\* ------------------------------------------------------------------------
UpperCase == {"A", "R", "S", "V"}
LowerCase == {"a", "b", "c", "d", "e", "o", "p", "r", "s", "t", "u", "v", "x"}
Digits == {"0", "1", "2", "3", "5"}
Punctuation == {".", ",", "!", "-"}

\* \w
IsWord(c) == c \in UpperCase \cup LowerCase \cup Digits \cup {"_", CJK}

\* str.lower() on one character
LowerChar(c) ==
    CASE c = "A" -> "a" [] c = "R" -> "r" [] c = "S" -> "s" [] c = "V" -> "v" [] OTHER -> c

Lower(s) == [i \in 1..Len(s) |-> LowerChar(s[i])]

\* the class of the emoji pattern: its range U+24C2-U+1F251 holds the Chinese characters
EmojiChars == {CJK}

\* [\x00-\x1F\x7F]: line breaks and tabs are control characters
ControlChars == {"\n", "\t"}

\* number of leading characters of s that lie in class
RunLength(s, class) ==
    LET out == {i \in 1..Len(s) : s[i] \notin class}
    IN  IF out = {} THEN Len(s) ELSE (CHOOSE i \in out : \A j \in out : i <= j) - 1

\* number of leading characters of s that do not lie in class
RunLengthOutside(s, class) ==
    LET in == {i \in 1..Len(s) : s[i] \in class}
    IN  IF in = {} THEN Len(s) ELSE (CHOOSE i \in in : \A j \in in : i <= j) - 1

\* re.sub of every maximal run of at least n characters of class, by two line
\* breaks ("nn"), one space ("space") or the last character of the run ("last")
RECURSIVE SubRuns(_, _, _, _)
SubRuns(s, class, n, by) ==
    IF s = <<>> THEN <<>>
    ELSE LET k == RunLength(s, class)
             o == RunLengthOutside(s, class)
         IN  IF k = 0 THEN SubSeq(s, 1, o) \o SubRuns(SubSeq(s, o + 1, Len(s)), class, n, by)
             ELSE (IF k < n THEN SubSeq(s, 1, k)
                   ELSE CASE by = "nn"    -> <<"\n", "\n">>
                          [] by = "space" -> <<" ">>
                          [] by = "last"  -> <<s[k]>>)
                  \o SubRuns(SubSeq(s, k + 1, Len(s)), class, n, by)

\* re.sub of every character of class by nothing
Remove(s, class) == SelectSeq(s, LAMBDA c : c \notin class)

\* the lines longer than this are dropped by remove_noise
MaxLineLen == 500

strip_html_markdown(t) ==
    IF t = <<>> THEN <<>>
    ELSE Strip(SubRuns(t, {"\n"}, 3, "nn"))

remove_noise(t) ==
    IF t = <<>> THEN <<>>
    ELSE LET printable == Remove(Remove(t, EmojiChars), ControlChars)
             lines == SplitLines(printable)
             filtered_lines == SelectSeq(lines, LAMBDA line : Len(Strip(line)) <= MaxLineLen)
             joined == Join(filtered_lines, <<"\n">>)
         IN  Strip(SubRuns(SubRuns(joined, {"\n"}, 3, "nn"), WhitespaceChars, 2, "space"))

Reverse(s) == [i \in 1..Len(s) |-> s[Len(s) + 1 - i]]

\* ^[^\w\s]+|[^\w\s]+$ replaced by nothing; $ also matches before a line
\* break that ends the text
TrimNonWord(s) ==
    LET lead  == RunLength(s, Punctuation)
        rest  == SubSeq(s, lead + 1, Len(s))
        final == IF rest # <<>> /\ rest[Len(rest)] = "\n" THEN <<"\n">> ELSE <<>>
        body  == SubSeq(rest, 1, Len(rest) - Len(final))
        trail == RunLength(Reverse(body), Punctuation)
    IN  SubSeq(body, 1, Len(body) - trail) \o final

\* normalize_text without its re.sub(r"\s+", " ", text)
normalize_text_uncollapsed(t) ==
    IF t = <<>> THEN <<>>
    ELSE Strip(TrimNonWord(SubRuns(Lower(t), {".", ",", "!"}, 2, "last")))

normalize_text(t) ==
    IF t = <<>> THEN <<>>
    ELSE Strip(SubRuns(TrimNonWord(SubRuns(Lower(t), {".", ",", "!"}, 2, "last")),
                       WhitespaceChars, 1, "space"))

\* ------------------------------------------------------------------------
\* nlp/extractor_rules.py
\* ------------------------------------------------------------------------
\* s is v?\d+\.\d+(\.\d+)* : an optional v, then at least two groups of
\* digits separated by single dots
RECURSIVE IsDottedDigits(_, _)
IsDottedDigits(s, groups) ==
    LET k == RunLength(s, Digits)
    IN  /\ k > 0
        /\ IF k = Len(s) THEN groups >= 1
           ELSE s[k + 1] = "." /\ IsDottedDigits(SubSeq(s, k + 2, Len(s)), groups + 1)

IsVersionToken(s) ==
    /\ s # <<>>
    /\ IF s[1] \in {"v", "V"} THEN IsDottedDigits(Tail(s), 0) ELSE IsDottedDigits(s, 0)

\* \b before position i and after position j of s
BoundaryBefore(s, i) == i = 1 \/ ~IsWord(s[i - 1])
BoundaryAfter(s, j) == j = Len(s) \/ ~IsWord(s[j + 1])

\* VERSION_REGEX.search(text).group(1): the leftmost match, the longest there
extract_version(t) ==
    LET starts == {i \in 1..Len(t) : t[i] \in Digits \cup {"v", "V"} /\ BoundaryBefore(t, i)}
        matches == {m \in starts \X (1..Len(t)) :
                        /\ m[1] <= m[2]
                        /\ BoundaryAfter(t, m[2])
                        /\ IsVersionToken(SubSeq(t, m[1], m[2]))}
    IN  IF matches = {} THEN PyNone
        ELSE LET m == CHOOSE m \in matches :
                        \A o \in matches : m[1] < o[1] \/ (m[1] = o[1] /\ m[2] >= o[2])
             IN  PyStr(SubSeq(t, m[1], m[2]))

\* re.split(r"\n{2,}", text)
RECURSIVE SplitParagraphs(_)
SplitParagraphs(s) ==
    LET starts == {i \in 1..Len(s) - 1 : s[i] = "\n" /\ s[i + 1] = "\n"}
    IN  IF starts = {} THEN <<s>>
        ELSE LET p == CHOOSE i \in starts : \A j \in starts : i <= j
                 k == RunLength(SubSeq(s, p, Len(s)), {"\n"})
             IN  <<SubSeq(s, 1, p - 1)>> \o SplitParagraphs(SubSeq(s, p + k, Len(s)))

\* re.search(pattern, s, re.I) for a literal pattern
Contains(s, pattern) ==
    \E i \in 1..(Len(s) - Len(pattern) + 1) :
        Lower(SubSeq(s, i, i + Len(pattern) - 1)) = Lower(pattern)

\* "Steps to Reproduce|Reproduc|How to reproduce": each alternative holds Reproduc
HasStepsHeading(p) == Contains(p, <<"R", "e", "p", "r", "o", "d", "u", "c">>)

\* l.strip("-. \t")
StripBullets(s) ==
    LET keep == {i \in 1..Len(s) : s[i] \notin {"-", ".", " ", "\t"}}
    IN  IF keep = {} THEN <<>>
        ELSE SubSeq(s, CHOOSE i \in keep : \A j \in keep : i <= j,
                       CHOOSE i \in keep : \A j \in keep : j <= i)

extract_steps_by_heading(t) ==
    LET parts == SplitParagraphs(t)
        hits  == {i \in 1..Len(parts) : HasStepsHeading(parts[i])}
    IN  IF hits = {} THEN PyList(<<>>)
        ELSE LET p == parts[CHOOSE i \in hits : \A j \in hits : i <= j]
                 lines == SelectSeq(SplitLines(p), LAMBDA l : Strip(l) # <<>>)
             IN  PyList([i \in 1..Len(lines) |-> PyStr(StripBullets(lines[i]))])

\* ------------------------------------------------------------------------
\* pipeline/pipeline_runner.py: process_issue
\* ------------------------------------------------------------------------
\* how the call_llm call of one llm_extract ended: with an exception of some
\* class after the retries, or with a content
FailedCall(kind) == [json |-> "error", kind |-> kind]

\* llm_extract(text) as one step, given how call_llm ended
llm_extract(t, reply) ==
    IF IsBlankText(t) THEN DEFAULT_SCHEMA
    ELSE IF reply.json = "error"
    THEN IF IsJSONDecodeError(reply.kind) THEN Fallback(t) ELSE DEFAULT_SCHEMA
    ELSE IF reply.json = "invalid" THEN Fallback(t)
    ELSE IF reply.value.t # "dict" THEN DEFAULT_SCHEMA
    ELSE validate_extraction(reply.value.v)

\* cleaned[:2000]
DescriptionLen == 2000

\* the three cleaning calls of process_issue
CleanedBody(issue) ==
    normalize_text(remove_noise(strip_html_markdown(Or(Get(issue, "body"), PyStr(<<>>)).v)))

\* process_issue(issue), given how the model call inside llm_extract ended
process_issue(issue, reply) ==
    LET cleaned == CleanedBody(issue)
        version == extract_version(cleaned)
        steps   == extract_steps_by_heading(cleaned)
        llm_res == llm_extract(cleaned, reply)
    IN  [platform           |-> Get(issue, "platform"),
         repo_id            |-> PyStr(<<>>),
         issue_id           |-> Get(issue, "issue_id"),
         title              |-> Or(Get(llm_res, "title"), Get(issue, "title")),
         description        |-> Or(Get(llm_res, "description"),
                                   PyStr(Take(cleaned, DescriptionLen))),
         version            |-> Or(Get(llm_res, "version"), version),
         steps_to_reproduce |-> Or(Get(llm_res, "steps_to_reproduce"), steps),
         severity           |-> Or(Get(llm_res, "severity"), PyStr(UnKnow)),
         stack_trace        |-> Or(Get(llm_res, "stack_trace"), PyStr(<<>>)),
         url                |-> Get(issue, "url"),
         created_at         |-> Get(issue, "created_at")]

\* ------------------------------------------------------------------------
\* storage/mysql_client.py
\* ------------------------------------------------------------------------
\* what the database server does to one call: nothing, refuse the connection,
\* fail the statement
Faults == {"none", "connect", "execute"}

Unknown == <<"U", "n", "k", "n", "o", "w", "n">>

\* _get_connection that opens a connection only when none was ever held
get_connection_first_use(conn, fault) ==
    IF conn # "none" THEN [conn |-> conn, err |-> "none"]
    ELSE IF fault = "connect" THEN [conn |-> conn, err |-> "RuntimeError"]
    ELSE [conn |-> "open", err |-> "none"]

\* _get_connection: open a connection unless an open one is held
get_connection(conn, fault) ==
    IF conn = "open" THEN [conn |-> "open", err |-> "none"]
    ELSE IF fault = "connect" THEN [conn |-> conn, err |-> "RuntimeError"]
    ELSE [conn |-> "open", err |-> "none"]

\* a row with this (repo_id, issue_id) is persisted
HasKey(rows, repo_id, issue_id) ==
    \E r \in rows : r.repo_id = repo_id /\ r.issue_id = issue_id

\* get_token(platform)
get_token(token_config, conn, platform, fault) ==
    LET c == get_connection(conn, fault)
    IN  IF c.err # "none" THEN [ret |-> PyNone, err |-> c.err, conn |-> c.conn]
        ELSE IF fault = "execute" THEN [ret |-> PyNone, err |-> "RuntimeError", conn |-> "open"]
        ELSE [ret |-> token_config[platform], err |-> "none", conn |-> "open"]

\* is_duplicate that never finds the row
is_duplicate_never(rows, conn, repo_id, issue_id, fault) ==
    [ret |-> FALSE, err |-> "none", conn |-> conn, queried |-> FALSE]

\* is_duplicate without the check of its arguments
is_duplicate_unguarded(rows, conn, repo_id, issue_id, fault) ==
    LET c == get_connection(conn, fault)
    IN  IF c.err # "none"
        THEN [ret |-> FALSE, err |-> c.err, conn |-> c.conn, queried |-> FALSE]
        ELSE IF fault = "execute"
        THEN [ret |-> FALSE, err |-> "RuntimeError", conn |-> "open", queried |-> TRUE]
        ELSE [ret |-> HasKey(rows, repo_id, issue_id), err |-> "none",
              conn |-> "open", queried |-> TRUE]

\* is_duplicate(repo_id, issue_id)
is_duplicate(rows, conn, repo_id, issue_id, fault) ==
    IF ~(Truthy(repo_id) /\ Truthy(issue_id))
    THEN [ret |-> FALSE, err |-> "none", conn |-> conn, queried |-> FALSE]
    ELSE LET c == get_connection(conn, fault)
         IN  IF c.err # "none"
             THEN [ret |-> FALSE, err |-> c.err, conn |-> c.conn, queried |-> FALSE]
             ELSE IF fault = "execute"
             THEN [ret |-> FALSE, err |-> "RuntimeError", conn |-> "open", queried |-> TRUE]
             ELSE [ret |-> HasKey(rows, repo_id, issue_id), err |-> "none",
                   conn |-> "open", queried |-> TRUE]

\* params of insert_one: the row the statement carries
InsertParams(doc, id, now) ==
    [id                 |-> id,
     repo_id            |-> Get(doc, "repo_id"),
     issue_id           |-> Get(doc, "issue_id"),
     title              |-> Get(doc, "title"),
     description        |-> Or(Get(doc, "description"), PyStr(<<>>)),
     version            |-> Or(Get(doc, "version"), PyStr(<<>>)),
     steps_to_reproduce |-> Or(PyStr(ToStr(Get(doc, "steps_to_reproduce"))), PyStr(<<>>)),
     severity           |-> Or(Get(doc, "severity"), PyStr(Unknown)),
     stack_trace        |-> Or(Get(doc, "stack_trace"), PyStr(<<>>)),
     url                |-> Or(Get(doc, "url"), PyStr(<<>>)),
     created_at         |-> Get(doc, "created_at"),
     record_at          |-> now]

\* columns of the unique key of table standardized_defect
UniqueKey == {"repo_id", "issue_id"}

\* INSERT without IGNORE on a table without the unique key
InsertAlways(rows, row) == rows \cup {row}

\* INSERT IGNORE INTO standardized_defect: a row that agrees with a stored one
\* on the unique key is dropped
InsertIgnore(rows, row) ==
    IF \E r \in rows : \A k \in UniqueKey : r[k] = row[k] THEN rows ELSE rows \cup {row}

\* cursor.lastrowid whatever cursor.rowcount is
LastRowId_always(rowcount, next_id) == PyInt(next_id)

\* return cursor.lastrowid if cursor.rowcount > 0 else None
LastRowId(rowcount, next_id) == IF rowcount > 0 THEN PyInt(next_id) ELSE PyNone

\* a validation that lets every record through
MissingKey_never(doc) == FALSE

\* if not repo_id or not issue_id
MissingKey(doc) == ~Truthy(Get(doc, "repo_id")) \/ ~Truthy(Get(doc, "issue_id"))

\* insert_one(doc)
insert_one(rows, next_id, now, conn, doc, fault) ==
    LET same == [ret |-> PyNone, conn |-> conn, rows |-> rows, next_id |-> next_id,
                 executed |-> FALSE]
    IN  IF MissingKey(doc)
        THEN same @@ [err |-> "ValueError"]
        ELSE LET c == get_connection(conn, fault)
             IN  IF c.err # "none"
                 \* conn is not bound yet when the except and finally clauses read it
                 THEN same @@ [err |-> "UnboundLocalError"]
                 ELSE IF fault = "execute"
                 \* rollback, RuntimeError, and the finally clause closes
                 THEN [same EXCEPT !.conn = "closed", !.executed = TRUE]
                        @@ [err |-> "RuntimeError"]
                 ELSE LET after == InsertIgnore(rows, InsertParams(doc, next_id, now))
                          rowcount == IF after = rows THEN 0 ELSE 1
                      IN  [ret |-> LastRowId(rowcount, next_id),
                           err |-> "none",
                           conn |-> "closed",
                           rows |-> after,
                           next_id |-> next_id + rowcount,
                           executed |-> TRUE]

\* ------------------------------------------------------------------------
\* Inputs of one llm_extract call
\* ------------------------------------------------------------------------
Alphabet == {"a", CJK, " "}

\* every text of at most MaxTextLen characters
ShortTexts == SeqUpTo(Alphabet, MaxTextLen)

\* texts of at most MaxLines lines, some of them blank or padded
LineChoices == {<<"a">>, <<>>, <<" ", "b", " ">>}
LineTexts == {Join(ls, <<"\n">>) : ls \in SeqUpTo(LineChoices, MaxLines)}

\* first lines around the title limit
LongTexts ==
    {pre \o Rep("a", n) \o post :
        n \in {FallbackTitleLen - 1, FallbackTitleLen, FallbackTitleLen + 1},
        pre \in {<<>>, <<" ">>},
        post \in {<<>>, <<"\n", "b">>}}

Texts == ShortTexts \cup LineTexts \cup LongTexts

\* values a field of the model's JSON object can carry
JsonFieldValues ==
    {PyStr(<<>>), PyStr(<<" ", "x", " ">>), PyStr(<<"B">>),
     PyStr(Rep("x", ValidateMaxLen + 1)),
     PyList(<<>>), PyList(<<PyStr(<<"s">>), PyStr(<<"t">>)>>),
     PyNone, PyInt(5), PyInt(0)}

FullObject ==
    [k \in SchemaKeys |->
        CASE k = "steps_to_reproduce" -> PyList(<<PyStr(<<"s">>)>>)
          [] k = "severity"           -> PyStr(<<"H", "i", "g", "h">>)
          [] OTHER                    -> PyStr(<<"x">>)]

EmptyObject == [k \in {} |-> PyNone]

With(obj, key, value) ==
    [k \in DOMAIN obj \cup {key} |-> IF k = key THEN value ELSE obj[k]]

\* the full and the empty object, each with at most one field replaced or added
JsonObjects ==
    {EmptyObject, FullObject} \cup
    {With(base, k, v) : base \in {EmptyObject, FullObject},
                        k \in SchemaKeys \cup {"extra"},
                        v \in JsonFieldValues}

\* the value json.loads gives for a parseable model output
JsonDocuments ==
    {PyDict(o) : o \in JsonObjects} \cup {PyList(<<>>), PyStr(<<"x">>), PyInt(5), PyNone}

Unset == [json |-> "unset"]
InvalidJSON == [json |-> "invalid"]
ValidJSON(doc) == [json |-> "valid", value |-> doc]

\* the content of the model's reply, represented by what json.loads makes of it
Contents == {InvalidJSON} \cup {ValidJSON(d) : d \in JsonDocuments}
SmallContents == {InvalidJSON, ValidJSON(PyDict(FullObject)), ValidJSON(PyList(<<>>))}
FewTexts == {<<"a">>, <<" ", "a", "\n", CJK>>}

\* every reply is tried on a few texts, a few replies on every text
ContentsFor(t) == IF t \in FewTexts THEN Contents ELSE SmallContents

\* ------------------------------------------------------------------------
\* Inputs of the gateway calls and of run_once
\* ------------------------------------------------------------------------
\* most calls made on the gateway driven on its own
MaxCalls == 3

Platforms == {"github", "gitee", "gitlab"}

\* platform tags a caller can pass: the three supported ones and another
PlatformArgs == Platforms \cup {"bitbucket"}

\* token_config: no active token at all, or one for every platform
TokenConfigs == {[p \in Platforms |-> PyNone], [p \in Platforms |-> PyStr(<<"t">>)]}

RepoIds == {PyStr(<<"r">>)}

\* the two runs of the HTTP wrapper's thread pool that the model follows
Runs == {1, 2}

Issue(n, title, body) ==
    [issue_id   |-> PyInt(n),
     title      |-> PyStr(title),
     body       |-> PyStr(body),
     url        |-> PyStr(<<"u", Digit(n)>>),
     created_at |-> PyStr(<<"d", Digit(n)>>)]

UpstreamIssues ==
    {Issue(1, <<"T">>, <<"A", "b", " ", "1", ".", "2", "\n", "\n", "-", " ", "R", "e", "p", "r", "o", "d", "u", "c", "e", "!", "!">>),
     Issue(2, <<>>, <<>>)}

\* what fetch_recent can return: the issues in any order, with repetitions
IssueLists == SeqUpTo(UpstreamIssues, 2)

\* how the model call of one process_issue can end
PipelineReplies ==
    {FailedCall("ConnectionError"), InvalidJSON, ValidJSON(PyDict(FullObject)),
     ValidJSON(PyDict(EmptyObject))}

\* documents handed to insert_one directly
GatewayDocs ==
    {[repo_id |-> r, issue_id |-> i, title |-> PyStr(t)] :
        r \in {PyStr(<<"r">>), PyStr(<<>>)},
        i \in {PyInt(1), PyInt(2), PyInt(0)},
        t \in {<<"x">>, <<"y">>}}
        \cup {[title |-> PyStr(<<"x">>)]}

\* ------------------------------------------------------------------------
\* State
\* ------------------------------------------------------------------------
VARIABLES
    rows,            \* table standardized_defect
    next_id,         \* its AUTO_INCREMENT counter
    clock,           \* datetime.now()
    token_config,    \* table token_config: platform -> active token or None
    connection,      \* self.connection of each MySQLClient: "none", "open", "closed"
    gw_last,         \* the last call made on the gateway driven on its own
    gw_calls,        \* number of those calls
    pc,              \* position of each run_once call
    args,            \* its arguments
    issues,          \* its list of issues
    idx,             \* its position in that list
    doc,             \* its doc
    insert_result,   \* its insert_result
    num,             \* its num
    outcome,         \* what it returned or raised
    insert_log,      \* history: the insert_one calls that completed, with their result
    text,            \* argument of llm_extract
    llm_pc,          \* position inside llm_extract / call_llm
    attempt_number,  \* tenacity's attempt counter of the call_llm call
    requests_sent,   \* requests.post calls issued so far
    raised,          \* exception in flight, or "none"
    lang,            \* language detect_language returned last
    llm_response,    \* content returned by call_llm
    extracted,       \* value llm_extract returned
    branch,          \* return statement llm_extract left through
    col_pc,          \* position inside fetch_recent
    col_args,        \* the collector and the arguments of the fetch_recent call
    col_page,        \* page number of the next request
    col_sent,        \* page numbers requested so far, in order
    col_pages,       \* pages upstream answered with, in order
    col_all,         \* issues collected so far
    col_outcome,     \* what fetch_recent returned or raised
    m_issue,         \* argument of a process_issue call made on its own
    m_reply,         \* how the model call inside it ended
    m_doc,           \* what it returned
    c_text,          \* argument of a cleaning function called on its own
    c_fn,            \* the function called
    c_out            \* what it returned, and what it returned on that

llmVars ==
    <<text, llm_pc, attempt_number, requests_sent, raised, lang, llm_response, extracted, branch>>

dbVars == <<rows, next_id, clock, token_config, connection>>

gwVars == <<gw_last, gw_calls>>

runVars == <<pc, args, issues, idx, doc, insert_result, num, outcome, insert_log>>

colVars == <<col_pc, col_args, col_page, col_sent, col_pages, col_all, col_outcome>>

mergeVars == <<m_issue, m_reply, m_doc>>

cleanVars == <<c_text, c_fn, c_out>>

auxVars == <<colVars, mergeVars, cleanVars>>

vars == <<llmVars, dbVars, gwVars, runVars, auxVars>>

DbStart(tc) ==
    /\ rows = {}
    /\ next_id = 1
    /\ clock = 0
    /\ token_config = tc
    /\ connection = [r \in Runs |-> "none"]

GwStart ==
    /\ gw_last = Unset
    /\ gw_calls = 0

ColIdle ==
    /\ col_pc = "idle"
    /\ col_args = Unset
    /\ col_page = 1
    /\ col_sent = <<>>
    /\ col_pages = <<>>
    /\ col_all = <<>>
    /\ col_outcome = Unset

MergeIdle ==
    /\ m_issue = Unset
    /\ m_reply = Unset
    /\ m_doc = Unset

CleanIdle ==
    /\ c_text = <<>>
    /\ c_fn = "none"
    /\ c_out = <<>>

RunStart ==
    /\ pc = [r \in Runs |-> "idle"]
    /\ args = [r \in Runs |-> Unset]
    /\ issues = [r \in Runs |-> <<>>]
    /\ idx = [r \in Runs |-> 1]
    /\ doc = [r \in Runs |-> Unset]
    /\ insert_result = [r \in Runs |-> Unset]
    /\ num = [r \in Runs |-> 0]
    /\ outcome = [r \in Runs |-> Unset]
    /\ insert_log = {}

\* ------------------------------------------------------------------------
\* llm_extract, one step per statement that can fail
\* ------------------------------------------------------------------------
LlmStart(t) ==
    /\ text = t
    /\ llm_pc = "start"
    /\ attempt_number = 1
    /\ requests_sent = 0
    /\ raised = "none"
    /\ lang = "unset"
    /\ llm_response = Unset
    /\ extracted = Unset
    /\ branch = "none"

\* if not text or not text.strip(): return DEFAULT_SCHEMA.copy()
llm_extract_blank ==
    /\ llm_pc = "start"
    /\ IsBlankText(text)
    /\ extracted' = DEFAULT_SCHEMA
    /\ branch' = "blank"
    /\ llm_pc' = "done"
    /\ UNCHANGED <<text, attempt_number, requests_sent, raised, lang, llm_response>>
    /\ UNCHANGED <<dbVars, gwVars, runVars>>
    /\ UNCHANGED auxVars

\* entering the try block: call_llm(text, model)
llm_extract_begin ==
    /\ llm_pc = "start"
    /\ ~IsBlankText(text)
    /\ llm_pc' = "call"
    /\ UNCHANGED <<text, attempt_number, requests_sent, raised, lang, llm_response, extracted, branch>>
    /\ UNCHANGED <<dbVars, gwVars, runVars>>
    /\ UNCHANGED auxVars

\* one execution of the body of call_llm: the request is sent and either the
\* content comes back or an exception leaves the body
call_llm_attempt ==
    /\ llm_pc = "call"
    /\ lang' = detect_language(text)
    /\ requests_sent' = requests_sent + 1
    /\ \/ \E c \in ContentsFor(text) :
            /\ llm_response' = c
            /\ raised' = "none"
            /\ llm_pc' = "parse"
       \/ \E e \in ErrorKinds :
            /\ raised' = e
            /\ llm_pc' = "attempt_failed"
            /\ UNCHANGED llm_response
    /\ UNCHANGED <<text, attempt_number, extracted, branch>>
    /\ UNCHANGED <<dbVars, gwVars, runVars>>
    /\ UNCHANGED auxVars

\* tenacity: retry when the exception is of a retryable class and attempts remain
call_llm_retry ==
    /\ llm_pc = "attempt_failed"
    /\ RetryIf(raised)
    /\ attempt_number < StopAfterAttempt
    /\ attempt_number' = attempt_number + 1
    /\ llm_pc' = "call"
    /\ UNCHANGED <<text, requests_sent, raised, lang, llm_response, extracted, branch>>
    /\ UNCHANGED <<dbVars, gwVars, runVars>>
    /\ UNCHANGED auxVars

\* tenacity: otherwise the exception is re-raised to llm_extract (reraise=True)
call_llm_reraise ==
    /\ llm_pc = "attempt_failed"
    /\ ~(RetryIf(raised) /\ attempt_number < StopAfterAttempt)
    /\ llm_pc' = "except"
    /\ UNCHANGED <<text, attempt_number, requests_sent, raised, lang, llm_response, extracted, branch>>
    /\ UNCHANGED <<dbVars, gwVars, runVars>>
    /\ UNCHANGED auxVars

\* json.loads(llm_response), validate_extraction(extracted), return extracted
llm_extract_parse ==
    /\ llm_pc = "parse"
    /\ IF llm_response.json = "invalid"
       THEN /\ raised' = "JSONDecodeError"
            /\ llm_pc' = "except"
            /\ UNCHANGED <<extracted, branch>>
       ELSE IF llm_response.value.t # "dict"
       THEN /\ raised' = "AttributeError"
            /\ llm_pc' = "except"
            /\ UNCHANGED <<extracted, branch>>
       ELSE /\ extracted' = validate_extraction(llm_response.value.v)
            /\ branch' = "validated"
            /\ llm_pc' = "done"
            /\ UNCHANGED raised
    /\ UNCHANGED <<text, attempt_number, requests_sent, lang, llm_response>>
    /\ UNCHANGED <<dbVars, gwVars, runVars>>
    /\ UNCHANGED auxVars

\* except json.JSONDecodeError: the heuristic result
llm_extract_fallback ==
    /\ llm_pc = "except"
    /\ IsJSONDecodeError(raised)
    /\ extracted' = Fallback(text)
    /\ branch' = "fallback"
    /\ llm_pc' = "done"
    /\ UNCHANGED <<text, attempt_number, requests_sent, raised, lang, llm_response>>
    /\ UNCHANGED <<dbVars, gwVars, runVars>>
    /\ UNCHANGED auxVars

\* except Exception: return DEFAULT_SCHEMA.copy(); an exception the clause
\* does not catch leaves llm_extract
llm_extract_default ==
    /\ llm_pc = "except"
    /\ ~IsJSONDecodeError(raised)
    /\ IF IsException(raised)
       THEN /\ extracted' = DEFAULT_SCHEMA
            /\ branch' = "default"
            /\ llm_pc' = "done"
       ELSE /\ llm_pc' = "propagated"
            /\ UNCHANGED <<extracted, branch>>
    /\ UNCHANGED <<text, attempt_number, requests_sent, raised, lang, llm_response>>
    /\ UNCHANGED <<dbVars, gwVars, runVars>>
    /\ UNCHANGED auxVars

InitLLM ==
    /\ \E t \in Texts : LlmStart(t)
    /\ DbStart([p \in Platforms |-> PyNone])
    /\ GwStart
    /\ RunStart
    /\ ColIdle
    /\ CleanIdle
    /\ MergeIdle

NextLLM ==
    \/ llm_extract_blank
    \/ llm_extract_begin
    \/ call_llm_attempt
    \/ call_llm_retry
    \/ call_llm_reraise
    \/ llm_extract_parse
    \/ llm_extract_fallback
    \/ llm_extract_default

SpecLLM == InitLLM /\ [][NextLLM]_vars

\* ------------------------------------------------------------------------
\* detect_language applied to a text on its own
\* ------------------------------------------------------------------------
detect_language_call ==
    /\ lang = "unset"
    /\ lang' = detect_language(text)
    /\ UNCHANGED <<text, llm_pc, attempt_number, requests_sent, raised, llm_response,
                   extracted, branch>>
    /\ UNCHANGED <<dbVars, gwVars, runVars>>
    /\ UNCHANGED auxVars

NextDetect == detect_language_call

SpecDetect == InitLLM /\ [][NextDetect]_vars

\* ------------------------------------------------------------------------
\* One MySQLClient driven call by call
\* ------------------------------------------------------------------------
LlmIdle == LlmStart(<<>>)

PyBool(b) == [t |-> "bool", v |-> b]

gw_get_token ==
    /\ gw_calls < MaxCalls
    /\ \E platform \in Platforms, fault \in Faults :
        LET r == get_token(token_config, connection[1], platform, fault)
        IN  /\ connection' = [connection EXCEPT ![1] = r.conn]
            /\ gw_last' = [op |-> "get_token", platform |-> platform, fault |-> fault,
                           ret |-> r.ret, err |-> r.err]
    /\ gw_calls' = gw_calls + 1
    /\ UNCHANGED <<rows, next_id, clock, token_config>>
    /\ UNCHANGED <<llmVars, runVars>>
    /\ UNCHANGED auxVars

gw_is_duplicate ==
    /\ gw_calls < MaxCalls
    /\ \E d \in GatewayDocs, fault \in Faults :
        LET r == is_duplicate(rows, connection[1], Get(d, "repo_id"), Get(d, "issue_id"), fault)
        IN  /\ connection' = [connection EXCEPT ![1] = r.conn]
            /\ gw_last' = [op |-> "is_duplicate", repo_id |-> Get(d, "repo_id"),
                           issue_id |-> Get(d, "issue_id"), fault |-> fault,
                           ret |-> PyBool(r.ret), err |-> r.err, queried |-> r.queried]
    /\ gw_calls' = gw_calls + 1
    /\ UNCHANGED <<rows, next_id, clock, token_config>>
    /\ UNCHANGED <<llmVars, runVars>>
    /\ UNCHANGED auxVars

gw_insert_one ==
    /\ gw_calls < MaxCalls
    /\ \E d \in GatewayDocs, fault \in Faults :
        LET r == insert_one(rows, next_id, clock, connection[1], d, fault)
        IN  /\ connection' = [connection EXCEPT ![1] = r.conn]
            /\ rows' = r.rows
            /\ next_id' = r.next_id
            /\ gw_last' = [op |-> "insert_one", doc |-> d, fault |-> fault,
                           ret |-> r.ret, err |-> r.err, executed |-> r.executed]
    /\ clock' = clock + 1
    /\ gw_calls' = gw_calls + 1
    /\ UNCHANGED token_config
    /\ UNCHANGED <<llmVars, runVars>>
    /\ UNCHANGED auxVars

\* close()
gw_close ==
    /\ gw_calls < MaxCalls
    /\ connection[1] = "open"
    /\ connection' = [connection EXCEPT ![1] = "closed"]
    /\ gw_last' = [op |-> "close"]
    /\ gw_calls' = gw_calls + 1
    /\ UNCHANGED <<rows, next_id, clock, token_config>>
    /\ UNCHANGED <<llmVars, runVars>>
    /\ UNCHANGED auxVars

InitGateway ==
    /\ LlmIdle
    /\ \E tc \in TokenConfigs : DbStart(tc)
    /\ GwStart
    /\ RunStart
    /\ ColIdle
    /\ CleanIdle
    /\ MergeIdle

NextGateway ==
    \/ gw_get_token
    \/ gw_is_duplicate
    \/ gw_insert_one
    \/ gw_close

SpecGateway == InitGateway /\ [][NextGateway]_vars

\* ------------------------------------------------------------------------
\* pipeline/pipeline_runner.py: run_once, each run on a thread of its own
\* (main.py, run_once_async) with a MySQLClient of its own
\* ------------------------------------------------------------------------
Raise(r, kind) ==
    /\ pc' = [pc EXCEPT ![r] = "raised"]
    /\ outcome' = [outcome EXCEPT ![r] = [raised |-> kind]]

Return(r, value) ==
    /\ pc' = [pc EXCEPT ![r] = "returned"]
    /\ outcome' = [outcome EXCEPT ![r] = [returned |-> value]]

\* client = MySQLClient(); match platform: token = client.get_token(...);
\* collector = ...Collector(...)
run_once_enter(r, a, fault) ==
    /\ args' = [args EXCEPT ![r] = a]
    /\ IF a.platform \notin Platforms
       THEN \* case _: return
            /\ fault = "none"
            /\ Return(r, PyNone)
            /\ UNCHANGED connection
       ELSE LET t == get_token(token_config, connection[r], a.platform, fault)
            IN  /\ connection' = [connection EXCEPT ![r] = t.conn]
                /\ IF t.err # "none" THEN Raise(r, t.err)
                   \* print("token:" + token)
                   ELSE IF a.platform = "gitee" /\ t.ret = PyNone THEN Raise(r, "TypeError")
                   ELSE /\ pc' = [pc EXCEPT ![r] = "fetch"]
                        /\ UNCHANGED outcome
    /\ UNCHANGED <<rows, next_id, clock, token_config>>
    /\ UNCHANGED <<issues, idx, doc, insert_result, num, insert_log>>
    /\ UNCHANGED <<llmVars, gwVars>>
    /\ UNCHANGED auxVars

\* a run_once call of the thread pool, followed up to its fetch_recent call
run_once_start(r) ==
    /\ pc[r] = "idle"
    /\ \E platform \in PlatformArgs, repo_id \in RepoIds, fault \in Faults :
        run_once_enter(r, [platform |-> platform, repo_id |-> repo_id], fault)

\* issues = collector.fetch_recent(per_page=100, since=since, until=until)
run_once_fetch(r) ==
    /\ pc[r] = "fetch"
    /\ \/ \E l \in IssueLists :
            /\ issues' = [issues EXCEPT ![r] =
                    [i \in 1..Len(l) |-> l[i] @@ [platform |-> PyStr(<<args[r].platform>>)]]]
            /\ pc' = [pc EXCEPT ![r] = "loop"]
            /\ UNCHANGED outcome
       \/ \E kind \in {"RuntimeError", "ValueError"} :
            /\ Raise(r, kind)
            /\ UNCHANGED issues
    /\ UNCHANGED <<dbVars, llmVars, gwVars>>
    /\ UNCHANGED <<args, idx, doc, insert_result, num, insert_log>>
    /\ UNCHANGED auxVars

\* the for loop is exhausted: return num
run_once_return(r) ==
    /\ pc[r] = "loop"
    /\ idx[r] > Len(issues[r])
    /\ Return(r, PyInt(num[r]))
    /\ UNCHANGED <<dbVars, llmVars, gwVars>>
    /\ UNCHANGED <<args, issues, idx, doc, insert_result, num, insert_log>>
    /\ UNCHANGED auxVars

\* if client.is_duplicate(repo_id, issue.get("issue_id")) is True: continue
run_once_is_duplicate(r) ==
    /\ pc[r] = "loop"
    /\ idx[r] <= Len(issues[r])
    /\ \E fault \in Faults :
        LET d == is_duplicate(rows, connection[r], args[r].repo_id,
                              Get(issues[r][idx[r]], "issue_id"), fault)
        IN  /\ connection' = [connection EXCEPT ![r] = d.conn]
            /\ IF d.err # "none"
               THEN Raise(r, d.err) /\ UNCHANGED idx
               ELSE IF d.ret
               THEN /\ idx' = [idx EXCEPT ![r] = @ + 1]
                    /\ UNCHANGED <<pc, outcome>>
               ELSE /\ pc' = [pc EXCEPT ![r] = "process"]
                    /\ UNCHANGED <<idx, outcome>>
    /\ UNCHANGED <<rows, next_id, clock, token_config>>
    /\ UNCHANGED <<args, issues, doc, insert_result, num, insert_log>>
    /\ UNCHANGED <<llmVars, gwVars>>
    /\ UNCHANGED auxVars

\* doc = process_issue(issue); doc["repo_id"] = repo_id
run_once_process(r) ==
    /\ pc[r] = "process"
    /\ \E reply \in PipelineReplies :
        doc' = [doc EXCEPT ![r] =
                    [process_issue(issues[r][idx[r]], reply) EXCEPT !.repo_id = args[r].repo_id]]
    /\ pc' = [pc EXCEPT ![r] = "insert"]
    /\ UNCHANGED <<dbVars, llmVars, gwVars>>
    /\ UNCHANGED <<args, issues, idx, insert_result, num, outcome, insert_log>>
    /\ UNCHANGED auxVars

\* insert_result = client.insert_one(doc); if insert_result is None: ... else: num += 1
run_once_insert(r) ==
    /\ pc[r] = "insert"
    /\ \E fault \in Faults :
        LET i == insert_one(rows, next_id, clock, connection[r], doc[r], fault)
        IN  /\ connection' = [connection EXCEPT ![r] = i.conn]
            /\ rows' = i.rows
            /\ next_id' = i.next_id
            /\ IF i.err # "none"
               THEN /\ Raise(r, i.err)
                    /\ UNCHANGED <<insert_result, num, idx, insert_log>>
               ELSE /\ insert_result' = [insert_result EXCEPT ![r] = i.ret]
                    /\ num' = [num EXCEPT ![r] = IF i.ret = PyNone THEN @ ELSE @ + 1]
                    /\ idx' = [idx EXCEPT ![r] = @ + 1]
                    /\ pc' = [pc EXCEPT ![r] = "loop"]
                    /\ insert_log' = insert_log \cup
                            {[run |-> r, repo_id |-> doc[r].repo_id,
                              issue_id |-> doc[r].issue_id, ret |-> i.ret]}
                    /\ UNCHANGED outcome
    /\ clock' = clock + 1
    /\ UNCHANGED token_config
    /\ UNCHANGED <<args, issues, doc>>
    /\ UNCHANGED <<llmVars, gwVars>>
    /\ UNCHANGED auxVars

Init ==
    /\ LlmIdle
    /\ \E tc \in TokenConfigs : DbStart(tc)
    /\ GwStart
    /\ RunStart
    /\ ColIdle
    /\ CleanIdle
    /\ MergeIdle

Next ==
    \E r \in Runs :
        \/ run_once_start(r)
        \/ run_once_fetch(r)
        \/ run_once_is_duplicate(r)
        \/ run_once_process(r)
        \/ run_once_insert(r)
        \/ run_once_return(r)

Spec == Init /\ [][Next]_vars

\* ------------------------------------------------------------------------
\* collectors/github_collector.py, gitee_collector.py, gitlab_collector.py:
\* fetch_recent.  Instants are integers; a date argument is the format it is
\* written in together with the instant it denotes.
\* ------------------------------------------------------------------------
MaxPages == 3

\* per_page
PerPage == 2

NoDate == [fmt |-> "none"]

\* fmt: "date" for "YYYY-MM-DD", "iso_z" for an ISO-8601 timestamp with a
\* trailing Z, "other" for a string that is neither
DateArg(fmt, t) == [fmt |-> fmt, t |-> t]

SinceArgs == {NoDate, DateArg("date", 2), DateArg("iso_z", 2)}

UntilArgs == {NoDate, DateArg("date", 2), DateArg("iso_z", 2), [fmt |-> "other"]}

\* datetime.strptime(x, "%Y-%m-%d").replace(tzinfo=timezone.utc)
Strptime(x) == IF x.fmt = "date" THEN [ok |-> TRUE, t |-> x.t] ELSE [ok |-> FALSE]

\* datetime.fromisoformat(x.replace("Z", "+00:00"))
FromIsoFormat(x) ==
    IF x.fmt \in {"date", "iso_z"} THEN [ok |-> TRUE, t |-> x.t] ELSE [ok |-> FALSE]

\* try strptime, except ValueError: fromisoformat
StrptimeOrIso(x) == IF Strptime(x).ok THEN Strptime(x) ELSE FromIsoFormat(x)

\* an item of an upstream page; pull_request: the item carries the flag;
\* state: "open" or "closed"
Item(number, created_at, updated_at, pull_request, state) ==
    [number |-> number, created_at |-> created_at, updated_at |-> updated_at,
     pull_request |-> pull_request, state |-> state]

UpstreamItems ==
    {Item(1, 1, 3, FALSE, "open"), Item(2, 2, 2, FALSE, "open"), Item(3, 3, 3, FALSE, "open"),
     Item(4, 2, 2, TRUE, "open"), Item(5, 3, 3, FALSE, "closed")}

\* state filters the endpoint documents
StateArgs == {"open", "closed", "all"}

\* the default of the state parameter of fetch_recent
DefaultState(platform) == IF platform = "gitlab" THEN "opened" ELSE "open"

\* upstream's reading of the state parameter of a request
StateMatches(state, item) ==
    \/ state = "all"
    \/ state \in {"open", "opened"} /\ item.state = "open"
    \/ state = "closed" /\ item.state = "closed"

\* pages upstream can answer with: up to per_page items, ascending by creation
Pages ==
    {pg \in SeqUpTo(UpstreamItems, PerPage) :
        \A i \in 1..Len(pg), j \in 1..Len(pg) :
            i < j => (pg[i].created_at <= pg[j].created_at /\ pg[i] # pg[j])}

\* the collectors run_once can build and the ones built with a project_id or
\* without owner or repo, with the arguments of fetch_recent
CollectorArgs ==
    {a \in [platform : Platforms,
            owner : {PyNone, PyStr(<<"o">>)},
            repo : {PyNone, PyStr(<<"r">>)},
            project_id : {PyNone, PyStr(<<"p">>)},
            state : {"open", "opened", "closed"},
            since : SinceArgs,
            until : UntilArgs] :
        /\ a.platform # "gitlab" => a.project_id = PyNone
        /\ a.state \in {DefaultState(a.platform), "closed"}}

\* GitLabCollector.__init__: self.project_path
ProjectPath(a) ==
    IF Truthy(a.owner) /\ Truthy(a.repo) THEN PyStr(<<"o", "%2F", "r">>) ELSE a.project_id

\* a check that lets every collector through
Resolved_always(a) == TRUE

\* the check at the top of fetch_recent
Resolved(a) ==
    IF a.platform = "gitlab"
    THEN Truthy(ProjectPath(a)) \/ (Truthy(a.owner) /\ Truthy(a.repo))
    ELSE Truthy(a.owner) /\ Truthy(a.repo)

\* the time filters of the request: upstream answers with items that pass them.
\* GitHub's since selects by update time; GitLab's created_after and
\* created_before select by creation time; the Gitee request carries none.
TimeAccepts(a, item) ==
    CASE a.platform = "github" ->
            IF a.since.fmt = "none" THEN TRUE
            ELSE item.updated_at >= StrptimeOrIso(a.since).t
      [] a.platform = "gitlab" ->
            /\ IF a.since.fmt = "none" THEN TRUE
               ELSE item.created_at >= StrptimeOrIso(a.since).t
            /\ IF a.until.fmt = "none" THEN TRUE
               ELSE item.created_at <= Strptime(a.until).t
      [] OTHER -> TRUE

\* the filters of the request, "state" among them
ServerAccepts(a, item) == StateMatches(a.state, item) /\ TimeAccepts(a, item)

\* the body of the loop over the items of a page: "append", "skip" or the
\* exception it raises
KeepItem(a, item) ==
    CASE a.platform = "github" ->
            IF item.pull_request THEN "skip"
            ELSE IF a.until.fmt = "none" THEN "append"
            ELSE IF ~Strptime(a.until).ok THEN "ValueError"
            ELSE IF item.created_at > Strptime(a.until).t THEN "skip"
            ELSE "append"
      [] a.platform = "gitee" ->
            IF item.pull_request THEN "skip"
            ELSE IF a.since.fmt # "none" /\ ~StrptimeOrIso(a.since).ok THEN "ValueError"
            ELSE IF a.since.fmt # "none" /\ item.created_at < StrptimeOrIso(a.since).t THEN "skip"
            ELSE IF a.until.fmt = "none" THEN "append"
            ELSE IF ~StrptimeOrIso(a.until).ok THEN "ValueError"
            ELSE IF item.created_at > StrptimeOrIso(a.until).t THEN "skip"
            ELSE "append"
      [] OTHER -> "append"

\* the dict appended for an item
RawIssue(a, item) ==
    [platform |-> a.platform, issue_id |-> item.number, created_at |-> item.created_at]

\* for item in issues_list: ...
RECURSIVE ProcessPage(_, _, _)
ProcessPage(a, items, acc) ==
    IF items = <<>> THEN [all |-> acc, err |-> "none"]
    ELSE LET k == KeepItem(a, items[1])
         IN  IF k = "append" THEN ProcessPage(a, Tail(items), Append(acc, RawIssue(a, items[1])))
             ELSE IF k = "skip" THEN ProcessPage(a, Tail(items), acc)
             ELSE [all |-> acc, err |-> k]

ColRaise(kind, about, page) ==
    /\ col_pc' = "raised"
    /\ col_outcome' = [raised |-> kind, about |-> about, page |-> page]

ColReturn(list) ==
    /\ col_pc' = "returned"
    /\ col_outcome' = [returned |-> list]

\* entry of fetch_recent up to the first request
fetch_recent_enter(a) ==
    /\ col_pc = "idle"
    /\ col_args' = a
    /\ IF ~Resolved(a) THEN ColRaise("ValueError", "repository", 0)
       ELSE IF a.platform = "gitlab" /\ a.until.fmt # "none" /\ ~Strptime(a.until).ok
       THEN ColRaise("ValueError", "until", 0)
       ELSE col_pc' = "request" /\ UNCHANGED col_outcome
    /\ UNCHANGED <<col_page, col_sent, col_pages, col_all>>
    /\ UNCHANGED <<llmVars, dbVars, gwVars, runVars, mergeVars, cleanVars>>

\* a fetch_recent call on a collector of its own
fetch_recent_start == \E a \in CollectorArgs : fetch_recent_enter(a)

\* one request answered with a page, and the loop over its items
fetch_recent_page ==
    /\ col_pc = "request"
    /\ Len(col_sent) < MaxPages
    /\ \E pg \in Pages :
        /\ \A i \in 1..Len(pg) : ServerAccepts(col_args, pg[i])
        /\ col_sent' = Append(col_sent, col_page)
        /\ col_pages' = Append(col_pages, pg)
        /\ LET r == ProcessPage(col_args, pg, col_all)
           IN  IF col_args.platform = "github"
               \* one request, then return issues
               THEN /\ IF r.err # "none" THEN ColRaise(r.err, "until", 0)
                       ELSE ColReturn(r.all)
                    /\ UNCHANGED <<col_page, col_all>>
               \* if not issues_list: break
               ELSE IF pg = <<>>
               THEN ColReturn(col_all) /\ UNCHANGED <<col_page, col_all>>
               ELSE IF r.err # "none"
               THEN ColRaise(r.err, "date", 0) /\ UNCHANGED <<col_page, col_all>>
               ELSE /\ col_all' = r.all
                    /\ col_page' = col_page + 1
                    /\ UNCHANGED <<col_pc, col_outcome>>
    /\ UNCHANGED col_args
    /\ UNCHANGED <<llmVars, dbVars, gwVars, runVars, mergeVars, cleanVars>>

\* one request that fails: no connection ("ConnectionError") or a response
\* with an error status ("HTTPError")
fetch_recent_fail ==
    /\ col_pc = "request"
    /\ Len(col_sent) < MaxPages
    /\ \E kind \in {"ConnectionError", "HTTPError"} :
        CASE col_args.platform = "github" -> ColRaise("RuntimeError", kind, 0)
          [] col_args.platform = "gitee" -> ColRaise("RuntimeError", kind, col_page)
          \* the handler reads r.url: r is bound by the request of an earlier
          \* page, or by this one when it got a response
          [] OTHER -> IF kind = "ConnectionError" /\ col_sent = <<>>
                      THEN ColRaise("UnboundLocalError", kind, 0)
                      ELSE ColRaise("RuntimeError", kind, col_page)
    /\ col_sent' = Append(col_sent, col_page)
    /\ UNCHANGED <<col_args, col_page, col_pages, col_all>>
    /\ UNCHANGED <<llmVars, dbVars, gwVars, runVars, mergeVars, cleanVars>>

\* the requests of this collector carry timeout=
HasTimeout(platform) == platform = "gitlab"

\* one request that upstream never answers: with a timeout requests raises
\* Timeout, a RequestException; without one the call does not come back
fetch_recent_hang ==
    /\ col_pc = "request"
    /\ Len(col_sent) < MaxPages
    /\ IF ~HasTimeout(col_args.platform)
       THEN col_pc' = "waiting" /\ UNCHANGED col_outcome
       ELSE CASE col_args.platform = "github" -> ColRaise("RuntimeError", "Timeout", 0)
              [] col_args.platform = "gitee" -> ColRaise("RuntimeError", "Timeout", col_page)
              [] OTHER -> IF col_sent = <<>>
                          THEN ColRaise("UnboundLocalError", "Timeout", 0)
                          ELSE ColRaise("RuntimeError", "Timeout", col_page)
    /\ col_sent' = Append(col_sent, col_page)
    /\ UNCHANGED <<col_args, col_page, col_pages, col_all>>
    /\ UNCHANGED <<llmVars, dbVars, gwVars, runVars, mergeVars, cleanVars>>

InitCollector ==
    /\ LlmIdle
    /\ DbStart([p \in Platforms |-> PyNone])
    /\ GwStart
    /\ RunStart
    /\ ColIdle
    /\ CleanIdle
    /\ MergeIdle

NextCollector ==
    \/ fetch_recent_start
    \/ fetch_recent_page
    \/ fetch_recent_fail
    \/ fetch_recent_hang

SpecCollector == InitCollector /\ [][NextCollector]_vars

\* ------------------------------------------------------------------------
\* run_once followed through the fetch_recent call of its collector
\* ------------------------------------------------------------------------
\* arguments of the run_once call: owner and repo are given
RunArgs ==
    [platform : PlatformArgs,
     repo_id : RepoIds,
     state : StateArgs,
     since : {NoDate, DateArg("date", 2)},
     until : {NoDate, DateArg("date", 2)}]

\* ...Collector(token=token, owner=owner, repo=repo) and the arguments of
\* collector.fetch_recent(per_page=100, since=since, until=until): state is
\* left to its default
CollectorCall(a) ==
    [platform |-> a.platform,
     owner |-> PyStr(<<"o">>),
     repo |-> PyStr(<<"r">>),
     project_id |-> PyNone,
     state |-> DefaultState(a.platform),
     since |-> a.since,
     until |-> a.until]

\* the dict of an issue as run_once reads it
RunnerIssue(raw) ==
    Issue(raw.issue_id, <<"T">>, <<>>) @@ [platform |-> PyStr(<<raw.platform>>)]

\* the list handed over last issue first
FetchedIssues_reversed(list) ==
    [i \in 1..Len(list) |-> RunnerIssue(list[Len(list) + 1 - i])]

\* the list run_once iterates over
FetchedIssues(list) == [i \in 1..Len(list) |-> RunnerIssue(list[i])]

run_once_call ==
    /\ pc[1] = "idle"
    /\ \E a \in RunArgs, fault \in Faults : run_once_enter(1, a, fault)

\* issues = collector.fetch_recent(per_page=100, since=since, until=until): the call
run_once_fetch_recent ==
    /\ pc[1] = "fetch"
    /\ fetch_recent_enter(CollectorCall(args[1]))

\* the same statement: fetch_recent has returned or raised
run_once_fetched ==
    /\ pc[1] = "fetch"
    /\ col_pc \in {"returned", "raised"}
    /\ IF col_pc = "raised"
       THEN Raise(1, col_outcome.raised) /\ UNCHANGED issues
       ELSE /\ issues' = [issues EXCEPT ![1] = FetchedIssues(col_outcome.returned)]
            /\ pc' = [pc EXCEPT ![1] = "loop"]
            /\ UNCHANGED outcome
    /\ UNCHANGED <<dbVars, llmVars, gwVars>>
    /\ UNCHANGED <<args, idx, doc, insert_result, num, insert_log>>
    /\ UNCHANGED auxVars

InitPipeline == Init

NextPipeline ==
    \/ run_once_call
    \/ run_once_fetch_recent
    \/ fetch_recent_page
    \/ fetch_recent_fail
    \/ fetch_recent_hang
    \/ run_once_fetched
    \/ run_once_is_duplicate(1)
    \/ run_once_process(1)
    \/ run_once_insert(1)
    \/ run_once_return(1)

SpecPipeline == InitPipeline /\ [][NextPipeline]_vars

\* ------------------------------------------------------------------------
\* process_issue called on its own
\* ------------------------------------------------------------------------
\* a heading extract_steps_by_heading looks for
StepsHeading == <<"R", "e", "p", "r", "o", "d", "u", "c", "e">>

\* bodies of an issue: empty, one line, several lines separated by the line
\* breaks upstream can send, a text longer than the title of the fallback
MergeBodies ==
    {<<>>,
     <<"x">>,
     <<"V", "1", ".", "2", ".", "0", " ", "x">>,
     <<"A", "b", " ", "1", ".", "2", "\n", "\n", "-", " ", "R", "e", "p", "r", "o", "d", "u", "c", "e", "!", "!">>,
     <<LS, "\n">>,
     StepsHeading \o <<"\n">> \o <<"1", " ", "a">> \o <<"\n">> \o <<"2", " ", "b">>,
     StepsHeading \o <<LS>> \o <<"1", " ", "a">> \o <<LS>> \o <<"2", " ", "b">>,
     Rep("a", FallbackTitleLen \div 2) \o <<LS>> \o Rep("b", FallbackTitleLen)}

MergeIssues == {Issue(1, title, body) : title \in {<<>>, <<"T">>}, body \in MergeBodies}

\* the full and the empty object of the model, each with at most one field
\* set to an empty or to another value
MergeObjects ==
    {EmptyObject, FullObject} \cup
    {With(base, k, v) : base \in {EmptyObject, FullObject},
                        k \in SchemaKeys,
                        v \in {PyStr(<<>>), PyStr(<<"B">>), PyList(<<>>), PyNone}}

MergeReplies ==
    {FailedCall("ConnectionError"), FailedCall("JSONDecodeError"), InvalidJSON,
     ValidJSON(PyList(<<>>))} \cup {ValidJSON(PyDict(o)) : o \in MergeObjects}

process_issue_call ==
    /\ m_doc = Unset
    /\ m_doc' = process_issue(m_issue, m_reply)
    /\ UNCHANGED <<m_issue, m_reply>>
    /\ UNCHANGED <<llmVars, dbVars, gwVars, runVars, colVars, cleanVars>>

InitMerge ==
    /\ LlmIdle
    /\ DbStart([p \in Platforms |-> PyNone])
    /\ GwStart
    /\ RunStart
    /\ ColIdle
    /\ CleanIdle
    /\ m_issue \in MergeIssues
    /\ m_reply \in MergeReplies
    /\ m_doc = Unset

NextMerge == process_issue_call

SpecMerge == InitMerge /\ [][NextMerge]_vars

\* ------------------------------------------------------------------------
\* preprocessing/clean.py: normalize_text and remove_noise called on their own
\* ------------------------------------------------------------------------
CleanAlphabet == {"a", ".", " ", "\n"}

\* two lines, each around the limit of remove_noise or well below it
TwoLineTexts ==
    {Rep("a", n) \o <<"\n">> \o Rep("b", m) :
        n \in {1, MaxLineLen \div 2 + 1, MaxLineLen + 1},
        m \in {1, MaxLineLen \div 2 + 1}}

CleanTexts == SeqUpTo(CleanAlphabet, MaxTextLen) \cup TwoLineTexts

\* normalize_text(text), and normalize_text of what it returned
normalize_text_call ==
    /\ c_fn \in {"none", "normalize_text"}
    /\ Len(c_out) < 2
    /\ c_fn' = "normalize_text"
    /\ c_out' = Append(c_out, normalize_text(IF c_out = <<>> THEN c_text ELSE c_out[Len(c_out)]))
    /\ UNCHANGED c_text
    /\ UNCHANGED <<llmVars, dbVars, gwVars, runVars, colVars, mergeVars>>

\* remove_noise(text)
remove_noise_call ==
    /\ c_fn = "none"
    /\ c_fn' = "remove_noise"
    /\ c_out' = <<remove_noise(c_text)>>
    /\ UNCHANGED c_text
    /\ UNCHANGED <<llmVars, dbVars, gwVars, runVars, colVars, mergeVars>>

InitClean ==
    /\ LlmIdle
    /\ DbStart([p \in Platforms |-> PyNone])
    /\ GwStart
    /\ RunStart
    /\ ColIdle
    /\ MergeIdle
    /\ c_text \in CleanTexts
    /\ c_fn = "none"
    /\ c_out = <<>>

NextClean ==
    \/ normalize_text_call
    \/ remove_noise_call

SpecClean == InitClean /\ [][NextClean]_vars

\* ========================================================================
\* Properties
\* ========================================================================
AllWhitespace(t) == \A i \in 1..Len(t) : IsSpace(t[i])

ChineseCount(t) == Cardinality({i \in 1..Len(t) : t[i] = CJK})

NonSpaceCount(t) == Cardinality({i \in 1..Len(t) : t[i] \notin {" ", "\n", "\t"}})

\* positions, among the lines of t, of the lines that are not blank
NonBlankLineNumbers(t) ==
    {i \in 1..Len(SplitLines(t)) : ~AllWhitespace(SplitLines(t)[i])}

\* position of the n-th non-blank line of t
NthNonBlank(t, n) ==
    CHOOSE i \in NonBlankLineNumbers(t) :
        Cardinality({j \in NonBlankLineNumbers(t) : j <= i}) = n

\* the non-blank lines number from..to of t (as far as they exist), as they stand
RawNonBlankLines(t, from, to) ==
    LET last == Min(to, Cardinality(NonBlankLineNumbers(t)))
    IN  [k \in 1..(IF last >= from THEN last - from + 1 ELSE 0) |->
            SplitLines(t)[NthNonBlank(t, from + k - 1)]]

\* the same lines without their leading and trailing whitespace
TrimmedNonBlankLines(t, from, to) ==
    LET raw == RawNonBlankLines(t, from, to)
    IN  [k \in 1..Len(raw) |-> Strip(raw[k])]

OtherFieldsDefault(res) ==
    \A k \in {"version", "severity", "steps_to_reproduce", "stack_trace"} :
        res[k] = DEFAULT_SCHEMA[k]

RetryableKinds == {"ConnectionError", "Timeout", "HTTPError", "TimeoutError", "JSONDecodeError"}

\* C4: whatever the model does, no exception leaves llm_extract and the value
\* it returns has exactly the six schema keys.
C4_ExactlySixKeys ==
    /\ llm_pc # "propagated"
    /\ llm_pc = "done" => DOMAIN extracted = SchemaKeys

\* a reply that is JSON but not an object ended in the default schema
C4_Witness ==
    /\ llm_pc = "done"
    /\ branch = "default"
    /\ llm_response.json = "valid"
    /\ llm_response.value.t = "list"

\* C5: the steps_to_reproduce of every result is a sequence; validation turns
\* a non-sequence, non-empty value into the one-element sequence of its string
\* form and an absent or empty value into the empty sequence.
C5_StepsAlwaysSequence ==
    llm_pc = "done" =>
        /\ extracted["steps_to_reproduce"].t = "list"
        /\ branch = "validated" =>
            LET got == Get(llm_response.value.v, "steps_to_reproduce")
            IN  /\ (got.t # "list" /\ Truthy(got)) =>
                        extracted["steps_to_reproduce"] = PyList(<<PyStr(ToStr(got))>>)
                /\ ~Truthy(got) => extracted["steps_to_reproduce"] = PyList(<<>>)

\* C6 as claimed: after a reply that is not parseable JSON the title is the
\* first non-blank line of the text, as it stands, cut to 200 characters, the
\* description the next up to four non-blank lines joined by single spaces,
\* and the other four fields are the defaults.
C6_FallbackRawLines ==
    (llm_pc = "done" /\ llm_response = InvalidJSON) =>
        /\ branch = "fallback"
        /\ extracted["title"] = PyStr(Take(RawNonBlankLines(text, 1, 1)[1], 200))
        /\ extracted["description"] = PyStr(Join(RawNonBlankLines(text, 2, 5), <<" ">>))
        /\ OtherFieldsDefault(extracted)

\* C6 amended: the same with every line taken without its leading and
\* trailing whitespace (trimmed before the title is cut to 200 characters).
C6_FallbackTrimmedLines ==
    (llm_pc = "done" /\ llm_response = InvalidJSON) =>
        /\ branch = "fallback"
        /\ extracted["title"] = PyStr(Take(TrimmedNonBlankLines(text, 1, 1)[1], 200))
        /\ extracted["description"] = PyStr(Join(TrimmedNonBlankLines(text, 2, 5), <<" ">>))
        /\ OtherFieldsDefault(extracted)

\* the fallback ran on a text of more than five non-blank lines
C6_Witness ==
    /\ llm_pc = "done"
    /\ llm_response = InvalidJSON
    /\ branch = "fallback"
    /\ Cardinality(NonBlankLineNumbers(text)) > 5

\* C7: one llm_extract call sends at most 3 requests; a request after the
\* first is sent only after a failure of a retryable kind; a failure of any
\* other kind ends the model call at once, and nothing is sent afterwards.
C7_RetryPolicy ==
    /\ [](requests_sent <= 3)
    /\ [][(requests_sent' > requests_sent /\ requests_sent > 0)
            => raised \in RetryableKinds]_vars
    /\ [][(llm_pc = "attempt_failed" /\ raised \notin RetryableKinds)
            => (llm_pc' = "except" /\ requests_sent' = requests_sent)]_vars
    /\ [][(llm_pc \in {"except", "done"}) => (requests_sent' = requests_sent)]_vars

\* three requests were sent and the last failure was a retryable one
C7_Witness ==
    /\ requests_sent = 3
    /\ llm_pc = "except"
    /\ raised \in RetryableKinds

\* C8: when all 3 attempts of the model call fail, whatever the last error,
\* llm_extract returns the default schema.
C8_ExhaustedGivesDefault ==
    (llm_pc = "done" /\ requests_sent = 3 /\ llm_response = Unset) =>
        extracted = DEFAULT_SCHEMA

\* C9: for an empty or whitespace-only text no request is ever sent and the
\* result is the default schema.
C9_BlankShortCircuit ==
    AllWhitespace(text) =>
        /\ requests_sent = 0
        /\ llm_pc = "done" => extracted = DEFAULT_SCHEMA

\* llm_extract returned for a text made of whitespace only
C9_Witness ==
    /\ llm_pc = "done"
    /\ Len(text) > 0
    /\ AllWhitespace(text)

\* C10 as claimed: "zh" for blank input and for every non-blank input with at
\* least 20% Chinese characters among its non-whitespace characters, "en" for
\* non-blank input without any Chinese character.
C10_AtLeastTwentyPercent ==
    lang # "unset" =>
        /\ AllWhitespace(text) => lang = "zh"
        /\ (~AllWhitespace(text) /\ 5 * ChineseCount(text) >= NonSpaceCount(text))
                => lang = "zh"
        /\ (~AllWhitespace(text) /\ ChineseCount(text) = 0) => lang = "en"

\* C10 amended: the same with strictly more than 20%.
C10_MoreThanTwentyPercent ==
    lang # "unset" =>
        /\ AllWhitespace(text) => lang = "zh"
        /\ (~AllWhitespace(text) /\ 5 * ChineseCount(text) > NonSpaceCount(text))
                => lang = "zh"
        /\ (~AllWhitespace(text) /\ ChineseCount(text) = 0) => lang = "en"

\* a text mixing Chinese and other characters, above the threshold, was classified
C10_Witness ==
    /\ lang = "zh"
    /\ 5 * ChineseCount(text) > NonSpaceCount(text)
    /\ ChineseCount(text) < NonSpaceCount(text)
    /\ Len(text) > NonSpaceCount(text)

\* ------------------------------------------------------------------------
\* Storage gateway and run_once
\* ------------------------------------------------------------------------
RowsOfKey(repo_id, issue_id) ==
    {r \in rows : r.repo_id = repo_id /\ r.issue_id = issue_id}

AtMostOneRowPerKey ==
    \A r1 \in rows, r2 \in rows :
        (r1.repo_id = r2.repo_id /\ r1.issue_id = r2.issue_id) => r1 = r2

\* the step is an insert_one call that reached a working database with a
\* record whose repo_id and issue_id are both non-empty
InsertCallStep ==
    /\ gw_calls' = gw_calls + 1
    /\ gw_last'.op = "insert_one"
    /\ gw_last'.fault = "none"
    /\ Truthy(Get(gw_last'.doc, "repo_id"))
    /\ Truthy(Get(gw_last'.doc, "issue_id"))

\* C1: over any sequence of insert_one calls with non-empty repo_id and
\* issue_id, a call on an absent key returns a generated identifier and adds
\* exactly its row, a call on a key already stored returns None without
\* raising and leaves the table as it is, and no key ever has more than one row.
C1_InsertOneIdempotent ==
    /\ [](\A r \in rows : Cardinality(RowsOfKey(r.repo_id, r.issue_id)) <= 1)
    /\ [][InsertCallStep =>
            LET d == gw_last'.doc
            IN  /\ gw_last'.err = "none"
                /\ IF HasKey(rows, Get(d, "repo_id"), Get(d, "issue_id"))
                   THEN gw_last'.ret = PyNone /\ rows' = rows
                   ELSE /\ gw_last'.ret.t = "int"
                        /\ Cardinality(rows') = Cardinality(rows) + 1
                        /\ HasKey(rows', Get(d, "repo_id"), Get(d, "issue_id"))]_vars

\* a later insert_one call on a stored key has returned None, the row of the
\* first call (another title) still being the only one
C1_Witness ==
    /\ gw_last # Unset
    /\ gw_last.op = "insert_one"
    /\ gw_last.fault = "none"
    /\ gw_last.err = "none"
    /\ gw_last.ret = PyNone
    /\ \E r \in rows :
        /\ r.repo_id = Get(gw_last.doc, "repo_id")
        /\ r.issue_id = Get(gw_last.doc, "issue_id")
        /\ r.title # Get(gw_last.doc, "title")

\* run r is at the head of the loop with an issue whose key is stored
FindsKeyPresent(r) ==
    /\ pc[r] = "loop"
    /\ idx[r] <= Len(issues[r])
    /\ HasKey(rows, args[r].repo_id, Get(issues[r][idx[r]], "issue_id"))

\* run r takes the step
StepOf(r) == <<pc[r], idx[r]>> # <<pc'[r], idx'[r]>>

\* C2: whatever run_once calls are made on the same repository and issue
\* list, no (repo_id, issue_id) has more than one row; stored rows are never
\* changed or removed; a run that finds the key of an issue stored goes on to
\* the next issue (or ends on a storage error) without processing it, without
\* writing and without counting it; and a run counts an issue only when its
\* insert added the row.
C2_RerunsWriteOnce ==
    /\ []AtMostOneRowPerKey
    /\ [][rows \subseteq rows']_vars
    /\ [][\A r \in Runs : (FindsKeyPresent(r) /\ StepOf(r)) =>
            /\ pc'[r] \in {"loop", "raised"}
            /\ pc'[r] = "loop" => idx'[r] = idx[r] + 1
            /\ rows' = rows
            /\ num' = num]_vars
    /\ [][\A r \in Runs : num'[r] # num[r] =>
            /\ num'[r] = num[r] + 1
            /\ ~HasKey(rows, doc[r].repo_id, doc[r].issue_id)
            /\ HasKey(rows', doc[r].repo_id, doc[r].issue_id)]_vars

\* a run has returned after skipping an issue that an earlier run stored:
\* it counted nothing and the row is there
C2_Witness ==
    \E r \in Runs :
        /\ pc[r] = "returned"
        /\ outcome[r] = [returned |-> PyInt(0)]
        /\ Len(issues[r]) > 0
        /\ \A i \in 1..Len(issues[r]) : HasKey(rows, args[r].repo_id, Get(issues[r][i], "issue_id"))
        /\ \A e \in insert_log : e.run # r
        /\ \E q \in Runs : q # r /\ pc[q] = "returned" /\ num[q] > 0

\* insert_one calls of the two runs that completed on the same key
RacedInserts ==
    {p \in insert_log \X insert_log :
        /\ p[1].run # p[2].run
        /\ p[1].repo_id = p[2].repo_id
        /\ p[1].issue_id = p[2].issue_id}

\* C3: when two concurrent run_once calls both pass is_duplicate for the
\* same key and both call insert_one for it, exactly one of the two calls gets
\* a generated identifier and the other gets None, the key has exactly one
\* row, and the counts of the two runs add up to the number of rows added.
C3_RaceOneWinner ==
    /\ \A p \in RacedInserts :
        /\ (p[1].ret = PyNone) # (p[2].ret = PyNone)
        /\ Cardinality(RowsOfKey(p[1].repo_id, p[1].issue_id)) = 1
    /\ num[1] + num[2] = Cardinality(rows)
    /\ (\A r \in Runs : pc[r] = "returned" /\ outcome[r].returned # PyNone) =>
            outcome[1].returned.v + outcome[2].returned.v = Cardinality(rows)

\* both runs passed is_duplicate for the same key, both inserted, and both
\* have returned
C3_Witness ==
    /\ RacedInserts # {}
    /\ \A r \in Runs : pc[r] = "returned" /\ outcome[r].returned # PyNone
    /\ outcome[1].returned.v + outcome[2].returned.v = 1

\* ------------------------------------------------------------------------
\* Collectors
\* ------------------------------------------------------------------------
\* the items of the pages received so far
ReceivedItems ==
    {col_pages[k][j] : <<k, j>> \in {x \in (1..Len(col_pages)) \X (1..PerPage) :
                                        x[2] <= Len(col_pages[x[1]])}}

ReturnedIssues == {col_outcome.returned[i] : i \in 1..Len(col_outcome.returned)}

\* C11: whatever the pages hold, the list fetch_recent returns has no issue
\* made from an item that upstream flagged as a pull/merge request.
C11_NoPullRequestReturned ==
    col_pc = "returned" =>
        \A issue \in ReturnedIssues :
            ~\E item \in ReceivedItems : item.pull_request /\ item.number = issue.issue_id

\* C12: every returned issue was created at or after since when since is
\* supplied, and at or before until when until is supplied.
C12_WithinWindow ==
    col_pc = "returned" =>
        \A issue \in ReturnedIssues :
            /\ col_args.since.fmt \in {"date", "iso_z"} => col_args.since.t <= issue.created_at
            /\ col_args.until.fmt \in {"date", "iso_z"} => issue.created_at <= col_args.until.t

\* C13: the pages requested are 1, 2, 3, ... in this order; fetch_recent
\* returns only after an empty page, the first one, and its list holds the
\* issue of every item of the pages before that passes the filters.
C13_PagesUntilEmpty ==
    /\ \A i \in 1..Len(col_sent) : col_sent[i] = i
    /\ col_pc = "returned" =>
        /\ col_pages # <<>>
        /\ \A k \in 1..Len(col_pages) : (col_pages[k] = <<>>) <=> (k = Len(col_pages))
        /\ \A item \in ReceivedItems :
                KeepItem(col_args, item) = "append" => RawIssue(col_args, item) \in ReturnedIssues

\* C14: an until given as an ISO-8601 timestamp with a trailing Z never makes
\* fetch_recent fail with a validation error, and the list returned respects it.
C14_IsoUntilAccepted ==
    (col_pc \in {"raised", "returned"} /\ col_args.until.fmt = "iso_z") =>
        /\ col_pc = "raised" => ~(col_outcome.raised = "ValueError" /\ col_outcome.about # "repository")
        /\ col_pc = "returned" =>
                \A issue \in ReturnedIssues : issue.created_at <= col_args.until.t

\* C15: with an until that is neither a date nor an ISO-8601 timestamp
\* fetch_recent never returns a list, whatever the pages hold.
C15_BadUntilRejected ==
    (col_pc \in {"raised", "returned"} /\ col_args.until.fmt = "other") => col_pc # "returned"

\* owner or repo is missing, and for GitLab the project id too
RepositoryUnresolved ==
    /\ col_args.owner = PyNone \/ col_args.repo = PyNone
    /\ col_args.platform = "gitlab" => col_args.project_id = PyNone

\* C16: fetch_recent on a collector without a resolved repository raises the
\* ValueError about the repository and no request has been sent.
C16_UnresolvedFailsFirst ==
    (col_pc # "idle" /\ RepositoryUnresolved) =>
        /\ col_pc = "raised"
        /\ col_outcome = [raised |-> "ValueError", about |-> "repository", page |-> 0]
        /\ col_sent = <<>>
        /\ col_pages = <<>>

\* a GitLab collector built with a repo but neither owner nor project id was
\* refused
C16_Witness ==
    /\ col_pc = "raised"
    /\ col_args.platform = "gitlab"
    /\ col_args.owner = PyNone
    /\ col_args.repo # PyNone
    /\ col_args.project_id = PyNone
    /\ col_outcome.about = "repository"

\* C17: a request that fails, on whatever page, makes fetch_recent raise a
\* RuntimeError that carries the number of that page.
C17_FailureIsCollectionError ==
    (col_pc = "raised" /\ col_outcome.about \in {"ConnectionError", "HTTPError"}) =>
        /\ col_outcome.raised = "RuntimeError"
        /\ col_outcome.page = col_sent[Len(col_sent)]

\* ------------------------------------------------------------------------
\* process_issue
\* ------------------------------------------------------------------------
OrElse(x, y) == IF Truthy(x) THEN x ELSE y

MergedExceptVersion ==
    LET cleaned == CleanedBody(m_issue)
        llm     == llm_extract(cleaned, m_reply)
    IN  /\ m_doc.title = OrElse(llm["title"], Get(m_issue, "title"))
        /\ m_doc.description = OrElse(llm["description"], PyStr(Take(cleaned, 2000)))
        /\ m_doc.steps_to_reproduce =
                OrElse(llm["steps_to_reproduce"], extract_steps_by_heading(cleaned))
        /\ m_doc.severity = OrElse(llm["severity"], PyStr(<<"U", "n", "K", "n", "o", "w">>))
        /\ m_doc.stack_trace = OrElse(llm["stack_trace"], PyStr(<<>>))

InsertStep ==
    /\ gw_calls' = gw_calls + 1
    /\ gw_last'.op = "insert_one"

C20_FailureIsStorageError ==
    [][(InsertStep /\ gw_last'.err \notin {"none", "ValueError"}) =>
            /\ gw_last'.err = "RuntimeError"
            /\ rows' = rows]_vars

\* ------------------------------------------------------------------------
\* run_once: failures and the count
\* ------------------------------------------------------------------------
\* run r takes the step that calls insert_one
InsertStepOf(r) == pc[r] = "insert" /\ StepOf(r)

\* the call meets a database that cannot be reached: no connection is held
\* open and opening one fails
ConnectionLevelFailure(r) ==
    /\ connection[r] # "open"
    /\ outcome'[r] = [raised |-> insert_one(rows, next_id, clock, connection[r], doc[r], "connect").err]

\* C21: an insert_one call of run_once stops the run only when it fails at
\* the level of the connection; after any other insert_one call the run goes on
\* with the next issue.
C21_InsertFailureContinues ==
    [][\A r \in Runs : (InsertStepOf(r) /\ ~ConnectionLevelFailure(r)) =>
            /\ pc'[r] = "loop"
            /\ idx'[r] = idx[r] + 1]_vars

\* insert_one calls of run r that returned a generated identifier
InsertedBy(r) == {e \in insert_log : e.run = r /\ e.ret # PyNone}

\* C22: a run_once call that returns gives an integer, the number of its
\* insert_one calls that returned a generated identifier.
C22_ReturnsInsertCount ==
    \A r \in Runs : pc[r] = "returned" =>
        /\ outcome[r].returned.t = "int"
        /\ outcome[r].returned.v = Cardinality(InsertedBy(r))

\* ------------------------------------------------------------------------
\* run_once and its collector
\* ------------------------------------------------------------------------
\* the items upstream sent for the issues the run holds
CollectedItems ==
    {item \in ReceivedItems :
        \E i \in 1..Len(issues[1]) : issues[1][i].issue_id = PyInt(item.number)}

\* C23: the requests of the collector select by the state filter given to
\* run_once, so every issue the run collects has the requested state.
C23_StateFilterUsed ==
    col_pc # "idle" =>
        /\ \A item \in UpstreamItems :
                StateMatches(col_args.state, item) <=> StateMatches(args[1].state, item)
        /\ \A item \in CollectedItems : StateMatches(args[1].state, item)

\* ------------------------------------------------------------------------
\* Cleaning
\* ------------------------------------------------------------------------
\* C24: normalize_text applied to its own result gives that result again.
C24_NormalizeIdempotent ==
    (c_fn = "normalize_text" /\ Len(c_out) = 2) => c_out[2] = c_out[1]

\* p occurs in s
IsSubstring(p, s) == \E i \in 0..(Len(s) - Len(p)) : SubSeq(s, i + 1, i + Len(p)) = p

\* the characters of s that are not whitespace
Content(s) == SelectSeq(s, LAMBDA c : c \notin {" ", "\n", "\t"})

\* C25: the content of every line of at most 500 characters is in the text
\* remove_noise returns, whatever the length of the whole text, and no line of
\* more than 500 characters is.
C25_DropsOnlyLongLines ==
    c_fn = "remove_noise" =>
        \A i \in 1..Len(SplitLines(c_text)) :
            LET line == SplitLines(c_text)[i]
            IN  IF Len(line) <= 500
                THEN IsSubstring(Content(line), Content(c_out[1]))
                ELSE ~IsSubstring(Content(line), Content(c_out[1]))

\* ------------------------------------------------------------------------
\* Types of the fields of a record
\* ------------------------------------------------------------------------
SeverityValues ==
    {<<"C", "r", "i", "t", "i", "c", "a", "l">>, <<"H", "i", "g", "h">>,
     <<"M", "e", "d", "i", "u", "m">>, <<"L", "o", "w">>, <<"U", "n", "K", "n", "o", "w">>}

WellTyped(severity, title, description) ==
    /\ severity.t = "str"
    /\ severity.v \in SeverityValues
    /\ title.t = "str"
    /\ Len(title.v) <= 5000
    /\ description.t = "str"

\* C26: in the result of llm_extract and in the document process_issue makes
\* of it, whatever the model call gave, severity is one of Critical, High,
\* Medium, Low, UnKnow, title is a string of at most 5000 characters and
\* description is a string.
C26_FieldsWellTyped ==
    m_doc # Unset =>
        LET llm == llm_extract(CleanedBody(m_issue), m_reply)
        IN  /\ WellTyped(llm["severity"], llm["title"], llm["description"])
            /\ WellTyped(m_doc.severity, m_doc.title, m_doc.description)

\* ------------------------------------------------------------------------
\* Requests that get no answer
\* ------------------------------------------------------------------------
\* C27: every page request carries a timeout: fetch_recent is never left
\* waiting on a request that upstream does not answer, it ends with an error.
C27_RequestsTimeOut == col_pc # "waiting"

\* ------------------------------------------------------------------------
\* is_duplicate and the connection of the gateway
\* ------------------------------------------------------------------------
\* the step is an is_duplicate call
IsDuplicateStep ==
    /\ gw_calls' = gw_calls + 1
    /\ gw_last'.op = "is_duplicate"

\* C28: is_duplicate never changes the rows; with a missing or empty repo_id
\* or issue_id it returns False without using the connection; otherwise, when
\* it returns, it returns True exactly when a row with that key is stored.
C28_IsDuplicateMatchesStore ==
    [][IsDuplicateStep =>
            /\ rows' = rows
            /\ IF \/ gw_last'.repo_id \in {PyNone, PyStr(<<>>)}
                  \/ gw_last'.issue_id \in {PyNone, PyInt(0)}
               THEN /\ gw_last'.err = "none"
                    /\ gw_last'.ret = PyBool(FALSE)
                    /\ ~gw_last'.queried
                    /\ connection' = connection
               ELSE gw_last'.err = "none" =>
                        /\ gw_last'.queried
                        /\ gw_last'.ret = PyBool(RowsOfKey(gw_last'.repo_id, gw_last'.issue_id) # {})]_vars

\* is_duplicate has found the key of a row that an insert_one call stored
C28_Witness ==
    /\ gw_last # Unset
    /\ gw_last.op = "is_duplicate"
    /\ gw_last.err = "none"
    /\ gw_last.ret = PyBool(TRUE)
    /\ RowsOfKey(gw_last.repo_id, gw_last.issue_id) # {}

\* the step is a get_token, is_duplicate or insert_one call that gets past
\* the check of its arguments
StorageCallStep ==
    /\ gw_calls' = gw_calls + 1
    /\ gw_last'.op \in {"get_token", "is_duplicate", "insert_one"}
    /\ gw_last'.op = "insert_one" => gw_last'.err # "ValueError"
    /\ gw_last'.op = "is_duplicate" =>
            (Truthy(gw_last'.repo_id) /\ Truthy(gw_last'.issue_id))

\* the statement of the call of the step was executed
StatementExecuted ==
    CASE gw_last'.op = "insert_one" -> gw_last'.executed
      [] gw_last'.op = "is_duplicate" -> gw_last'.queried
      [] OTHER -> gw_last'.err = "none" \/ gw_last'.fault = "execute"

\* C30: a call executes its statement only on a connection that is open: the
\* one held, or one it opens because none is held or the held one is closed;
\* when no connection can be opened the call fails without executing
\* anything.  After its statement insert_one leaves the connection closed,
\* whether the statement wrote, did nothing or failed; get_token and
\* is_duplicate leave it open.
C30_ConnectionLifecycle ==
    [][StorageCallStep =>
            IF connection[1] # "open" /\ gw_last'.fault = "connect"
            THEN /\ ~StatementExecuted
                 /\ gw_last'.err # "none"
                 /\ connection' = connection
            ELSE /\ StatementExecuted
                 /\ connection'[1] = IF gw_last'.op = "insert_one" THEN "closed" ELSE "open"]_vars

\* an insert_one call stored a row and closed the connection, and the
\* is_duplicate call after it ran its query on a connection opened anew
C30_Witness ==
    /\ gw_calls = 2
    /\ rows # {}
    /\ gw_last.op = "is_duplicate"
    /\ gw_last.queried
    /\ connection[1] = "open"

\* ------------------------------------------------------------------------
\* Order of the steps of run_once
\* ------------------------------------------------------------------------
\* the run is in its loop over the issues
Processing == pc[1] \in {"loop", "process", "insert"}

\* the issue the loop is at
CurrentIssue == issues[1][idx[1]]

\* C29: no page request is made once the loop over the issues has begun, and
\* the loop goes through the list fetch_recent returned in its order; for each
\* issue is_duplicate comes first, then process_issue with its model call, then
\* insert_one of the document made for that issue, then the next issue; when
\* is_duplicate finds the key, the loop goes to the next issue without making
\* a document and without writing.
C29_FetchThenProcessInOrder ==
    /\ [](Processing =>
            /\ col_pc = "returned"
            /\ Len(issues[1]) = Len(col_outcome.returned)
            /\ \A i \in 1..Len(issues[1]) :
                    issues[1][i].issue_id = PyInt(col_outcome.returned[i].issue_id))
    /\ [][Processing => (col_sent' = col_sent /\ col_pages' = col_pages)]_vars
    /\ [][(Processing /\ StepOf(1)) =>
            CASE pc[1] = "loop" /\ idx[1] > Len(issues[1]) ->
                    /\ pc'[1] = "returned"
                    /\ rows' = rows
              [] pc[1] = "loop" /\ idx[1] <= Len(issues[1]) ->
                    /\ doc' = doc
                    /\ rows' = rows
                    /\ insert_log' = insert_log
                    /\ pc'[1] \in {"loop", "process", "raised"}
                    /\ pc'[1] = "loop" =>
                            /\ HasKey(rows, args[1].repo_id, CurrentIssue.issue_id)
                            /\ idx'[1] = idx[1] + 1
                    /\ pc'[1] = "process" =>
                            /\ ~HasKey(rows, args[1].repo_id, CurrentIssue.issue_id)
                            /\ idx'[1] = idx[1]
              [] pc[1] = "process" ->
                    /\ pc'[1] = "insert"
                    /\ idx'[1] = idx[1]
                    /\ doc'[1].issue_id = CurrentIssue.issue_id
                    /\ rows' = rows
              [] pc[1] = "insert" ->
                    /\ pc'[1] \in {"loop", "raised"}
                    /\ pc'[1] = "loop" =>
                            /\ idx'[1] = idx[1] + 1
                            /\ HasKey(rows', args[1].repo_id, CurrentIssue.issue_id)
                    /\ \A r \in rows' \ rows : r.issue_id = CurrentIssue.issue_id]_vars

\* a run over three pages has returned: it stored some of its issues and
\* skipped the others, which it found stored
C29_Witness ==
    /\ pc[1] = "returned"
    /\ Len(col_sent) >= 3
    /\ Len(issues[1]) >= 3
    /\ outcome[1].returned # PyNone
    /\ outcome[1].returned.v > 1
    /\ outcome[1].returned.v < Len(issues[1])

\* the step of run r that enters run_once: client = MySQLClient() and the
\* match statement
EntryStepOf(r) == pc[r] = "idle" /\ pc'[r] # "idle"

\* the token store holds no active token for the platform of the call
NoActiveToken(r) ==
    /\ args'[r].platform \in Platforms
    /\ token_config[args'[r].platform] = PyNone

\* C31: when the token store holds no active token for the selected platform,
\* run_once goes on to fetch the issues, for github, gitee and gitlab alike:
\* the only way the entry of run_once fails is the RuntimeError of a token
\* lookup that itself failed, never the absence of the token.
C31_AbsentTokenProceeds ==
    [][(EntryStepOf(1) /\ NoActiveToken(1)) =>
            \/ pc'[1] = "fetch"
            \/ /\ pc'[1] = "raised"
               /\ outcome'[1].raised = "RuntimeError"]_vars

\* the reply takes llm_extract into its except json.JSONDecodeError branch
TakesFallback(reply) ==
    IF reply.json = "error" THEN IsJSONDecodeError(reply.kind) ELSE reply.json = "invalid"

\* C32: in process_issue the cleaned text handed to extract_steps_by_heading
\* and llm_extract holds no line break, so that the steps found by the rules
\* are at most one element and, on the invalid-JSON fallback of a text that is
\* not blank, the description of the LLM result is empty and its title is the
\* first 200 characters of the whole cleaned text; the merged document then
\* has that title and the first 2000 characters of the cleaned text as its
\* description.
C32_CleanedIsOneLine ==
    m_doc # Unset =>
        LET cleaned == CleanedBody(m_issue)
            steps   == extract_steps_by_heading(cleaned)
            llm_res == llm_extract(cleaned, m_reply)
        IN  /\ \A i \in 1..Len(cleaned) : cleaned[i] \notin LineBreaks
            /\ Len(steps.v) <= 1
            /\ (TakesFallback(m_reply) /\ ~IsBlankText(cleaned)) =>
                    /\ llm_res.description = PyStr(<<>>)
                    /\ llm_res.title = PyStr(Take(cleaned, FallbackTitleLen))
                    /\ m_doc.title = PyStr(Take(cleaned, FallbackTitleLen))
                    /\ m_doc.description = PyStr(Take(cleaned, DescriptionLen))
                    /\ m_doc.steps_to_reproduce = steps

\* process_issue has run on a body of two lines that is longer than the title
\* of the fallback, the model having answered with text that is not JSON
C32_Witness ==
    /\ m_doc # Unset
    /\ m_reply = InvalidJSON
    /\ Len(SplitLines(m_issue.body.v)) >= 2
    /\ Len(CleanedBody(m_issue)) > FallbackTitleLen
    /\ Len(m_doc.title.v) = FallbackTitleLen
    /\ m_doc.title.v # CleanedBody(m_issue)

====
